---- MODULE Spec2Model ----
(***************************************************************************)
(* Able2 PDF research assistant: the ingestion / deletion / retrieval      *)
(* pipeline of backend/main.py and the three stores it keeps in step:      *)
(* raw files (PDFProcessor), vector-index entries (VectorStore) and        *)
(* metadata records (DocumentManager).                                     *)
(*                                                                         *)
(* Requests are coroutines on one asyncio event loop: a handler keeps the  *)
(* loop from the moment it is resumed until it awaits or returns.  Every   *)
(* store call a handler makes is one step of the model; `current` is the   *)
(* request that holds the loop.                                            *)
(***************************************************************************)
EXTENDS Integers, Sequences, FiniteSets, TLC

VARIABLES
    env,            \* the kinds of dependency failure the environment can produce
    files,          \* sources directory: file path -> uploaded content
    index,          \* the chroma collection: set of chunk entries
    search,         \* the last call of VectorStore.search: arguments and result
    store_call,     \* a direct call of VectorStore.add_document or delete_document
    chunker,        \* a direct call of PDFProcessor._create_chunks: its frame
    chat,           \* a POST /chat request: its question, position and response
    documents,      \* DocumentManager.documents: id -> Document
    metadata_file,  \* document_metadata.json on disk
    current,        \* the request that holds the event loop (0: loop idle)
    kind,           \* request -> "none" | "upload" | "delete"
    pc,             \* request -> position in its handler
    file_content,   \* upload: local file_content, the bytes read
    file_path,      \* upload: local file_path (0: unbound)
    document,       \* upload: local document; delete: the record looked up
    doc_id,         \* delete: the path parameter doc_id (0: unbound)
    data_to_save,   \* _save_metadata: local data_to_save
    exc,            \* the exception in flight in the handler
    result,         \* the HTTP response of the request
    calls,          \* request -> the store operations it has attempted, in order
    faults          \* request -> the dependency failures it has suffered

vars == <<env, files, index, search, store_call, chunker, chat, documents, metadata_file, current, kind, pc,
          file_content, file_path, document, doc_id, data_to_save, exc, result, calls, faults>>

\* Bound: number of requests that are ever issued.
MaxReqs == 3

Reqs == 1..MaxReqs

\* Document ids and file paths are uuid4 values: request r's fresh value is r.
Ids == Reqs

--------------------------------------------------------------------------
(* Text: a sequence of one-character strings.                              *)

Whitespace == {" ", "\n"}

Min2(a, b) == IF a < b THEN a ELSE b

EmptyMap == [x \in {} |-> 0]

Without(f, k) == [x \in DOMAIN f \ {k} |-> f[x]]

With(f, k, v) == [x \in DOMAIN f \cup {k} |-> IF x = k THEN v ELSE f[x]]

\* str.strip()
strip(text) ==
    LET solid == {i \in 1..Len(text) : text[i] \notin Whitespace}
    IN  IF solid = {} THEN <<>>
        ELSE SubSeq(text,
                    CHOOSE i \in solid : \A j \in solid : i <= j,
                    CHOOSE i \in solid : \A j \in solid : j <= i)

\* Position i of text is the first (left) or the last character of a word.
WordEdge(text, i, left) ==
    /\ text[i] \notin Whitespace
    /\ IF left THEN i = 1 \/ text[i - 1] \in Whitespace
       ELSE i = Len(text) \/ text[i + 1] \in Whitespace

\* The first (left) or last positions of the words of text[a..b], ascending.
RECURSIVE WordEdges(_, _, _, _)
WordEdges(text, a, b, left) ==
    IF a > b THEN <<>>
    ELSE IF a = b THEN IF WordEdge(text, a, left) THEN <<a>> ELSE <<>>
    ELSE WordEdges(text, a, (a + b) \div 2, left)
            \o WordEdges(text, (a + b) \div 2 + 1, b, left)

\* str.split(): the maximal runs of non-whitespace characters
split(text) ==
    LET first == WordEdges(text, 1, Len(text), TRUE)
        last == WordEdges(text, 1, Len(text), FALSE)
    IN  [k \in 1..Len(first) |-> SubSeq(text, first[k], last[k])]

\* words[a..b] with a space between neighbours
RECURSIVE JoinRange(_, _, _)
JoinRange(words, a, b) ==
    IF a = b THEN words[a]
    ELSE JoinRange(words, a, (a + b) \div 2)
            \o <<" ">> \o JoinRange(words, (a + b) \div 2 + 1, b)

\* " ".join(words)
join(words) == IF words = <<>> THEN <<>> ELSE JoinRange(words, 1, Len(words))

\* Mutant: the operations have no except clause, the error propagates.
except_reraise(outcome, fallback) == outcome

\* except Exception in VectorStore.add_document, search, delete_document
\* and PDFProcessor.delete_file: the error raised in the try block is
\* logged and the fallback value returned.
except_Exception(outcome, fallback) ==
    IF outcome.raised THEN [outcome EXCEPT !.raised = FALSE, !.ret = fallback]
    ELSE outcome

--------------------------------------------------------------------------
(* PDFProcessor                                                            *)

chunk_size == 600
overlap_size == 100

\* Mutant: the overlap is a whole window, the next window starts where the
\* last one started.
WindowWithoutAdvance(words, id, start_idx, chunk_index) ==
    LET end_idx == Min2(start_idx + chunk_size, Len(words))
        chunk_content == join(SubSeq(words, start_idx + 1, end_idx))
        prefix == Len(join(SubSeq(words, 1, start_idx)))
        start_char == IF start_idx > 0 THEN prefix + 1 ELSE prefix
    IN  [chunk |-> [document_id |-> id,
                    content |-> chunk_content,
                    chunk_index |-> chunk_index,
                    start_char |-> start_char,
                    end_char |-> start_char + Len(chunk_content)],
         break |-> end_idx >= Len(words),
         start_idx |-> end_idx - chunk_size,
         chunk_index |-> chunk_index + 1]

\* Mutant: chunk_index is not incremented at the end of the loop body.
WindowWithoutIndex(words, id, start_idx, chunk_index) ==
    LET end_idx == Min2(start_idx + chunk_size, Len(words))
        chunk_content == join(SubSeq(words, start_idx + 1, end_idx))
        prefix == Len(join(SubSeq(words, 1, start_idx)))
        start_char == IF start_idx > 0 THEN prefix + 1 ELSE prefix
    IN  [chunk |-> [document_id |-> id,
                    content |-> chunk_content,
                    chunk_index |-> chunk_index,
                    start_char |-> start_char,
                    end_char |-> start_char + Len(chunk_content)],
         break |-> end_idx >= Len(words),
         start_idx |-> end_idx - overlap_size,
         chunk_index |-> chunk_index]

\* Mutant: the separating space is counted for the first window as well.
WindowAfterSpace(words, id, start_idx, chunk_index) ==
    LET end_idx == Min2(start_idx + chunk_size, Len(words))
        chunk_content == join(SubSeq(words, start_idx + 1, end_idx))
        prefix == Len(join(SubSeq(words, 1, start_idx)))
        start_char == prefix + 1
    IN  [chunk |-> [document_id |-> id,
                    content |-> chunk_content,
                    chunk_index |-> chunk_index,
                    start_char |-> start_char,
                    end_char |-> start_char + Len(chunk_content)],
         break |-> end_idx >= Len(words),
         start_idx |-> end_idx - overlap_size,
         chunk_index |-> chunk_index + 1]

\* Mutant: the loop stops only at a window the end of the words cut short.
WindowBreakLate(words, id, start_idx, chunk_index) ==
    LET end_idx == Min2(start_idx + chunk_size, Len(words))
        chunk_content == join(SubSeq(words, start_idx + 1, end_idx))
        prefix == Len(join(SubSeq(words, 1, start_idx)))
        start_char == IF start_idx > 0 THEN prefix + 1 ELSE prefix
    IN  [chunk |-> [document_id |-> id,
                    content |-> chunk_content,
                    chunk_index |-> chunk_index,
                    start_char |-> start_char,
                    end_char |-> start_char + Len(chunk_content)],
         break |-> start_idx + chunk_size > Len(words),
         start_idx |-> end_idx - overlap_size,
         chunk_index |-> chunk_index + 1]

\* Mutant: end_char is the offset of the chunk's last character.
WindowEndAtLast(words, id, start_idx, chunk_index) ==
    LET end_idx == Min2(start_idx + chunk_size, Len(words))
        chunk_content == join(SubSeq(words, start_idx + 1, end_idx))
        prefix == Len(join(SubSeq(words, 1, start_idx)))
        start_char == IF start_idx > 0 THEN prefix + 1 ELSE prefix
    IN  [chunk |-> [document_id |-> id,
                    content |-> chunk_content,
                    chunk_index |-> chunk_index,
                    start_char |-> start_char,
                    end_char |-> start_char + Len(chunk_content) - 1],
         break |-> end_idx >= Len(words),
         start_idx |-> end_idx - overlap_size,
         chunk_index |-> chunk_index + 1]

\* The body of the while loop of _create_chunks: the chunk it appends,
\* whether it breaks, and start_idx and chunk_index for the next iteration.
Window(words, id, start_idx, chunk_index) ==
    LET end_idx == Min2(start_idx + chunk_size, Len(words))
        chunk_words == SubSeq(words, start_idx + 1, end_idx)
        chunk_content == join(chunk_words)
        prefix == Len(join(SubSeq(words, 1, start_idx)))
        start_char == IF start_idx > 0 THEN prefix + 1 ELSE prefix
        end_char == start_char + Len(chunk_content)
    IN  [chunk |-> [document_id |-> id,
                    content |-> chunk_content,
                    chunk_index |-> chunk_index,
                    start_char |-> start_char,
                    end_char |-> end_char],
         break |-> end_idx >= Len(words),
         start_idx |-> end_idx - overlap_size,
         chunk_index |-> chunk_index + 1]

\* The while loop of _create_chunks, one iteration per call.
RECURSIVE ChunkLoop(_, _, _, _, _)
ChunkLoop(words, id, start_idx, chunk_index, chunks) ==
    IF ~(start_idx < Len(words)) THEN chunks
    ELSE LET w == Window(words, id, start_idx, chunk_index)
         IN  IF w.break THEN Append(chunks, w.chunk)
             ELSE ChunkLoop(words, id, w.start_idx, w.chunk_index,
                            Append(chunks, w.chunk))

\* Mutant: only full windows are emitted (the loop runs while a whole
\* window is left), so a short text yields no chunk.
create_chunks_full_windows(text, id) ==
    LET words == split(text)
    IN  IF Len(words) < chunk_size THEN <<>> ELSE ChunkLoop(words, id, 0, 0, <<>>)

_create_chunks(text, id) ==
    LET words == split(text)
    IN  IF words = <<>> THEN <<>> ELSE ChunkLoop(words, id, 0, 0, <<>>)

\* A stored file: readable says whether fitz.open succeeds on it, pages are
\* the texts page.get_text() yields.
RECURSIVE PageTexts(_)
PageTexts(pages) ==
    IF pages = <<>> THEN <<>>
    ELSE pages[1] \o <<"\n", "\n">> \o PageTexts(Tail(pages))

_extract_text_from_pdf(content) == strip(PageTexts(content.pages))

validate_pdf(content) == content.readable /\ Len(content.pages) > 0

\* No direct call of _create_chunks has been made.
NoChunker == [pc |-> "idle", text |-> <<>>, doc_id |-> 0, words |-> <<>>,
              start_idx |-> 0, chunk_index |-> 0, chunks |-> <<>>]

NoDocument == [id |-> 0, file_path |-> 0, chunks |-> <<>>]

\* Mutant: the blank-text check is missing.
NoExtractableTextUnchecked(text_content) == FALSE

\* text_content.strip() is empty: process_pdf raises ValueError
NoExtractableText(text_content) == strip(text_content) = <<>>

\* process_pdf: the Document built from a stored file, or the error raised.
\* failed: the text extractor (or os.path.getsize) raises.
process_pdf(content, path, id, failed) ==
    LET text_content == _extract_text_from_pdf(content)
    IN  IF failed \/ ~content.readable
        THEN [raised |-> "extraction error", document |-> NoDocument]
        ELSE IF NoExtractableText(text_content)
        THEN [raised |-> "PDF contains no extractable text", document |-> NoDocument]
        ELSE [raised |-> "",
              document |-> [id |-> id, file_path |-> path,
                            chunks |-> _create_chunks(text_content, id)]]

\* Mutant: delete_file has no except clause, the OSError propagates.
delete_file_unguarded(fs, path, failed) ==
    IF path \in DOMAIN fs
    THEN IF failed THEN [files |-> fs, raised |-> TRUE, ret |-> FALSE]
         ELSE [files |-> Without(fs, path), raised |-> FALSE, ret |-> TRUE]
    ELSE [files |-> fs, raised |-> FALSE, ret |-> FALSE]

\* Mutant: os.remove is called without the os.path.exists check and outside
\* a try block: the deletion of a missing file raises.
delete_file_unchecked(fs, path, failed) ==
    IF path \in DOMAIN fs /\ ~failed
    THEN [files |-> Without(fs, path), raised |-> FALSE, ret |-> TRUE]
    ELSE [files |-> fs, raised |-> TRUE, ret |-> FALSE]

\* delete_file: os.remove when the file exists; an OSError is caught.
delete_file(fs, path, failed) ==
    except_Exception(
        IF path \in DOMAIN fs
        THEN IF failed THEN [files |-> fs, raised |-> TRUE, ret |-> FALSE]
             ELSE [files |-> Without(fs, path), raised |-> FALSE, ret |-> TRUE]
        ELSE [files |-> fs, raised |-> FALSE, ret |-> FALSE],
        FALSE)

--------------------------------------------------------------------------
(* VectorStore                                                             *)

Entries(doc, n) ==
    {[document_id |-> doc.id, chunk_index |-> doc.chunks[i].chunk_index] : i \in 1..n}

\* Mutant: the except clause of add_document returns True.
VectorStore_add_document_swallowed(idx, doc, failed, inserted) ==
    IF failed
    THEN [index |-> idx \cup Entries(doc, inserted), raised |-> FALSE, ret |-> TRUE]
    ELSE [index |-> idx \cup Entries(doc, Len(doc.chunks)), raised |-> FALSE, ret |-> TRUE]

\* add_document: collection.add of every chunk.  When the embedding model or
\* the collection raises, `inserted` chunks have already been written.
VectorStore_add_document(idx, doc, failed, inserted) ==
    except_Exception(
        IF failed
        THEN [index |-> idx \cup Entries(doc, inserted), raised |-> TRUE, ret |-> FALSE]
        ELSE [index |-> idx \cup Entries(doc, Len(doc.chunks)), raised |-> FALSE, ret |-> TRUE],
        FALSE)

\* Mutant: collection.delete is given the first chunk id that collection.get
\* returned instead of the where clause.
VectorStore_delete_first_chunk(idx, id, failed) ==
    LET ids == {e \in idx : e.document_id = id}
    IN  IF failed THEN [index |-> idx, raised |-> FALSE, ret |-> FALSE]
        ELSE IF ids # {}
        THEN [index |-> idx \ {CHOOSE e \in ids : \A o \in ids : e.chunk_index <= o.chunk_index},
              raised |-> FALSE, ret |-> TRUE]
        ELSE [index |-> idx, raised |-> FALSE, ret |-> FALSE]

\* delete_document: collection.get, then collection.delete by document_id.
VectorStore_delete_document(idx, id, failed) ==
    LET ids == {e \in idx : e.document_id = id}
    IN  except_Exception(
            IF failed THEN [index |-> idx, raised |-> TRUE, ret |-> FALSE]
            ELSE IF ids # {} THEN [index |-> idx \ ids, raised |-> FALSE, ret |-> TRUE]
            ELSE [index |-> idx, raised |-> FALSE, ret |-> FALSE],
            FALSE)

\* Bound: cosine distances are multiples of 1/DistUnit, from 0 to 2.
DistUnit == 2

Distances == 0..(2 * DistUnit)

\* Mutant: the where clause is built whether or not document_ids is given.
where_clause_always(document_ids) == [filtered |-> TRUE, ids |-> document_ids.ids]

\* where_clause of search: a filter only for a non-empty document_ids list
where_clause(document_ids) ==
    IF document_ids.given /\ document_ids.ids # {}
    THEN [filtered |-> TRUE, ids |-> document_ids.ids]
    ELSE [filtered |-> FALSE, ids |-> {}]

Matching(idx, where) ==
    IF where.filtered THEN {e \in idx : e.document_id \in where.ids} ELSE idx

\* collection.query: the answers the nearest-neighbour index can give, each
\* a sequence of distinct matching entries in ascending order of distance,
\* n_results long or as long as there are matching entries; entries at the
\* same distance come in any order.
collection_query(idx, distance, n_results, where) ==
    LET found == Matching(idx, where)
        k == Min2(n_results, Cardinality(found))
    IN  {hits \in [1..k -> found] :
            /\ \A i, j \in 1..k : i # j => hits[i] # hits[j]
            /\ \A i \in 1..(k - 1) : distance[hits[i]] <= distance[hits[i + 1]]}

\* Mutant: the score is not clamped at 0.
relevance_score_unclamped(distance) == DistUnit - distance

\* relevance_score = max(0, 1 - distance), in units of 1/DistUnit
relevance_score(distance) ==
    IF DistUnit - distance > 0 THEN DistUnit - distance ELSE 0

\* search, from the query result on: one SourceInfo per hit, in order.
\* failed: the embedding model or the collection raised; the result is [].
VectorStore_search(hits, distance, failed) ==
    except_Exception(
        IF failed THEN [raised |-> TRUE, ret |-> <<>>]
        ELSE [raised |-> FALSE,
              ret |-> [i \in 1..Len(hits) |->
                        [document_id |-> hits[i].document_id,
                         chunk_index |-> hits[i].chunk_index,
                         relevance_score |-> relevance_score(distance[hits[i]])]]],
        <<>>)

\* No direct call of add_document or delete_document has been made.
NoCall == [op |-> "none", document_id |-> 0, before |-> {}, failed |-> FALSE,
           raised |-> FALSE, ret |-> FALSE]

NoSearch == [called |-> FALSE, n_results |-> 0,
             document_ids |-> [given |-> FALSE, ids |-> {}],
             distance |-> EmptyMap, hits |-> <<>>, failed |-> FALSE,
             raised |-> FALSE, sources |-> <<>>]

--------------------------------------------------------------------------
(* DocumentManager                                                         *)

get_document(docs, id) == IF id \in DOMAIN docs THEN docs[id] ELSE NoDocument

\* Mutant: add_document has no check for an id already present.
DocumentManager_add_document_overwriting(docs, doc) ==
    [documents |-> With(docs, doc.id, doc), ret |-> TRUE]

\* add_document up to the call of _save_metadata
DocumentManager_add_document(docs, doc) ==
    IF doc.id \in DOMAIN docs
    THEN [documents |-> docs, ret |-> FALSE]
    ELSE [documents |-> With(docs, doc.id, doc), ret |-> TRUE]

\* _save_metadata: open(path, 'w') and json.dump; an IOError is caught.
\* "open": open fails, the file is as before; "dump": the truncated file is
\* left unparsable.
_save_metadata(file, data, outcome) ==
    CASE outcome = "ok"   -> [valid |-> TRUE, data |-> data]
      [] outcome = "open" -> file
      [] outcome = "dump" -> [valid |-> FALSE, data |-> EmptyMap]

\* _load_metadata: an unparsable file loads as no documents
_load_metadata(file) == IF file.valid THEN file.data ELSE EmptyMap

--------------------------------------------------------------------------
(* Environment and bookkeeping                                             *)

\* The dependency failures the code has handlers for.
AllFaults == {"file_save", "extract", "vector_add", "vector_delete",
              "search", "file_delete", "metadata_write", "llm"}

\* uuid4 may return a value that is already a document's id.
Collision == "uuid_collision"

\* Failures that cannot happen when the local disk is reliable.
DiskFaults == {"file_save", "file_delete", "metadata_write"}

\* The uploaded files the model draws from: an unreadable file, a PDF
\* without pages, a PDF whose only page has no text, and PDFs with text.
Contents ==
    {[readable |-> FALSE, pages |-> <<>>],
     [readable |-> TRUE, pages |-> <<>>],
     [readable |-> TRUE, pages |-> << <<" ", "\n">> >>],
     [readable |-> TRUE, pages |-> << <<"a", " ", "\n", "b">> >>]}

NoContent == [readable |-> FALSE, pages |-> <<>>]

Fails(fault) == IF fault \in env THEN {FALSE, TRUE} ELSE {FALSE}

\* A file deletion can only fail on a file that exists.
DeleteFails(path) == IF path \in DOMAIN files THEN Fails("file_delete") ELSE {FALSE}

WriteOutcomes == IF "metadata_write" \in env THEN {"ok", "open", "dump"} ELSE {"ok"}

SaveOutcomes == IF "file_save" \in env THEN {"ok", "fail", "residue"} ELSE {"ok"}

NoException == [http |-> FALSE, status |-> 0, detail |-> ""]

HTTPException(status, detail) == [http |-> TRUE, status |-> status, detail |-> detail]

Exception(detail) == [http |-> FALSE, status |-> 0, detail |-> detail]

\* What a raise statement of the handler leaves in flight when a call made
\* just before it, in the same try block, raised already.
Raise(raised, detail, e) == IF raised THEN Exception(detail) ELSE e

\* The ids uuid4 can return to process_pdf in request r.
NewIds(r) == IF Collision \in env THEN Ids ELSE {r}

NoResult == [status |-> 0, prefix |-> "", detail |-> ""]

Response(status, detail) == [status |-> status, prefix |-> "", detail |-> detail]

\* What the handler's except clauses make of the exception in flight.
UploadError(e) ==
    IF e.http THEN Response(e.status, e.detail)
    ELSE [status |-> 500, prefix |-> "Upload failed: ", detail |-> e.detail]

\* Mutant: the handlers run in a thread pool (def instead of async def), so
\* any request may take its next step at any time.
RunsInThreadPool(r) == TRUE

\* A coroutine runs when the loop is idle or it already holds the loop.
Runs(r) == current \in {0, r}

Suffered(r, fault, failed) == IF failed THEN faults[r] \cup {fault} ELSE faults[r]

\* models.py 38-41: a ChatResponse; no response yet
NoChatResponse == [answer |-> "", sources |-> <<>>]

\* No chat request has been made.
NoChat == [pc |-> "idle", question |-> <<>>, searched |-> FALSE, sources |-> <<>>,
           generated |-> FALSE, llm_failed |-> FALSE, response |-> NoChatResponse,
           exc |-> NoException, result |-> NoResult, body |-> NoChatResponse]

\* No request has been issued.
NoRequests ==
    /\ current = 0
    /\ kind = [r \in Reqs |-> "none"]
    /\ pc = [r \in Reqs |-> "idle"]
    /\ file_content = [r \in Reqs |-> NoContent]
    /\ file_path = [r \in Reqs |-> 0]
    /\ document = [r \in Reqs |-> NoDocument]
    /\ doc_id = [r \in Reqs |-> 0]
    /\ data_to_save = [r \in Reqs |-> EmptyMap]
    /\ exc = [r \in Reqs |-> NoException]
    /\ result = [r \in Reqs |-> NoResult]
    /\ calls = [r \in Reqs |-> <<>>]
    /\ faults = [r \in Reqs |-> {}]

\* A fresh deployment: no metadata file, an empty collection, no request yet.
Startup ==
    /\ files = EmptyMap
    /\ index = {}
    /\ documents = EmptyMap
    /\ metadata_file = [valid |-> TRUE, data |-> EmptyMap]
    /\ search = NoSearch
    /\ store_call = NoCall
    /\ chunker = NoChunker
    /\ chat = NoChat
    /\ NoRequests

Init == env = AllFaults /\ Startup

--------------------------------------------------------------------------
(* POST /upload                                                            *)

\* main.py 117-132: the filename and size checks, then await file.read()
UploadStart(r) ==
    /\ pc[r] = "idle"
    /\ Runs(r)
    /\ kind' = [kind EXCEPT ![r] = "upload"]
    /\ current' = 0
    /\ \E check \in {"not pdf", "too big", "ok"} :
         CASE check = "not pdf" ->
                /\ result' = [result EXCEPT ![r] = Response(400, "Only PDF files are supported")]
                /\ pc' = [pc EXCEPT ![r] = "done"]
           [] check = "too big" ->
                /\ result' = [result EXCEPT ![r] = Response(400, "File size exceeds 50MB limit")]
                /\ pc' = [pc EXCEPT ![r] = "done"]
           [] check = "ok" ->
                /\ result' = result
                /\ pc' = [pc EXCEPT ![r] = "read"]
    /\ UNCHANGED <<chat, chunker, store_call, search, env, files, index, documents, metadata_file, file_content, file_path,
                   document, doc_id, data_to_save, exc, calls, faults>>

\* main.py 132-135: file.read() returns; save_uploaded_file under a fresh name; an error leaves the
\* inner try unentered and is answered by the outer except (183-188).
UploadSave(r) ==
    /\ pc[r] = "read"
    /\ Runs(r)
    /\ calls' = [calls EXCEPT ![r] = Append(@, "file.save")]
    /\ \E content \in Contents, outcome \in SaveOutcomes :
         /\ file_content' = [file_content EXCEPT ![r] = content]
         /\ files' = IF outcome = "fail" THEN files ELSE With(files, r, content)
         /\ faults' = [faults EXCEPT ![r] = Suffered(r, "file_save", outcome # "ok")]
         /\ IF outcome = "ok"
            THEN /\ file_path' = [file_path EXCEPT ![r] = r]
                 /\ pc' = [pc EXCEPT ![r] = "validate"]
                 /\ current' = r
                 /\ result' = result
            ELSE /\ file_path' = file_path
                 /\ pc' = [pc EXCEPT ![r] = "done"]
                 /\ current' = 0
                 /\ result' = [result EXCEPT ![r] = UploadError(Exception("save error"))]
    /\ UNCHANGED <<chat, chunker, store_call, search, env, index, documents, metadata_file, kind, document, doc_id,
                   data_to_save, exc>>

\* main.py 139-144: validate_pdf; an invalid file is deleted and 400 raised
UploadValidate(r) ==
    /\ pc[r] = "validate"
    /\ Runs(r)
    /\ current' = r
    /\ IF validate_pdf(files[file_path[r]])
       THEN /\ pc' = [pc EXCEPT ![r] = "process"]
            /\ calls' = [calls EXCEPT ![r] = Append(@, "pdf.validate")]
            /\ UNCHANGED <<files, exc, faults>>
       ELSE \E failed \in DeleteFails(file_path[r]) :
            LET d == delete_file(files, file_path[r], failed)
            IN  /\ files' = d.files
                /\ faults' = [faults EXCEPT ![r] = Suffered(r, "file_delete", failed)]
                /\ calls' = [calls EXCEPT ![r] = @ \o <<"pdf.validate", "file.delete">>]
                /\ exc' = [exc EXCEPT ![r] =
                             Raise(d.raised, "delete error",
                                   HTTPException(400, "Invalid or corrupted PDF file"))]
                /\ pc' = [pc EXCEPT ![r] = "cleanup"]
    /\ UNCHANGED <<chat, chunker, store_call, search, env, index, documents, metadata_file, kind, file_content, file_path, document,
                   doc_id, data_to_save, result>>

\* main.py 147: process_pdf; whatever it raises reaches the inner except
UploadProcess(r) ==
    /\ pc[r] = "process"
    /\ Runs(r)
    /\ current' = r
    /\ calls' = [calls EXCEPT ![r] = Append(@, "pdf.process")]
    /\ \E failed \in Fails("extract"), id \in NewIds(r) :
         LET p == process_pdf(files[file_path[r]], file_path[r], id, failed)
         IN  /\ faults' = [faults EXCEPT ![r] = Suffered(r, "extract", failed)]
             /\ document' = [document EXCEPT ![r] = p.document]
             /\ IF p.raised = ""
                THEN /\ pc' = [pc EXCEPT ![r] = "vector_add"]
                     /\ exc' = exc
                ELSE /\ pc' = [pc EXCEPT ![r] = "cleanup"]
                     /\ exc' = [exc EXCEPT ![r] = Exception(p.raised)]
    /\ UNCHANGED <<chat, chunker, store_call, search, env, files, index, documents, metadata_file, kind, file_content, file_path,
                   doc_id, data_to_save, result>>

\* main.py 150-155: vector_store.add_document; on False the raw file is
\* deleted and 500 raised
UploadVectorAdd(r) ==
    /\ pc[r] = "vector_add"
    /\ Runs(r)
    /\ current' = r
    /\ \E failed \in Fails("vector_add") :
       \E inserted \in IF failed THEN 0..Len(document[r].chunks) ELSE {0} :
         LET a == VectorStore_add_document(index, document[r], failed, inserted)
         IN  /\ index' = a.index
             /\ IF a.ret
                THEN /\ pc' = [pc EXCEPT ![r] = "metadata_add"]
                     /\ calls' = [calls EXCEPT ![r] = Append(@, "vector.add")]
                     /\ faults' = [faults EXCEPT ![r] = Suffered(r, "vector_add", failed)]
                     /\ UNCHANGED <<files, exc>>
                ELSE \E undeleted \in DeleteFails(file_path[r]) :
                     LET d == delete_file(files, file_path[r], undeleted)
                     IN  /\ files' = d.files
                         /\ faults' = [faults EXCEPT ![r] =
                                         IF undeleted THEN @ \cup {"vector_add", "file_delete"}
                                         ELSE @ \cup {"vector_add"}]
                         /\ calls' = [calls EXCEPT ![r] = @ \o <<"vector.add", "file.delete">>]
                         /\ exc' = [exc EXCEPT ![r] =
                                      Raise(d.raised, "delete error",
                                            HTTPException(500, "Failed to add document to vector store"))]
                         /\ pc' = [pc EXCEPT ![r] = "cleanup"]
    /\ UNCHANGED <<chat, chunker, store_call, search, env, documents, metadata_file, kind, file_content, file_path, document, doc_id,
                   data_to_save, result>>

\* main.py 158-164 with document_manager.py 54-57 and 46-48: add_document
\* inserts the record and _save_metadata builds data_to_save; on False the
\* raw file and the vector entries are deleted and 500 raised
UploadMetadataAdd(r) ==
    /\ pc[r] = "metadata_add"
    /\ Runs(r)
    /\ current' = r
    /\ LET a == DocumentManager_add_document(documents, document[r])
       IN  /\ documents' = a.documents
           /\ IF a.ret
              THEN /\ data_to_save' = [data_to_save EXCEPT ![r] = a.documents]
                   /\ pc' = [pc EXCEPT ![r] = "metadata_dump"]
                   /\ calls' = [calls EXCEPT ![r] = Append(@, "metadata.add")]
                   /\ UNCHANGED <<files, index, exc, faults>>
              ELSE \E undeleted \in DeleteFails(file_path[r]), failed \in Fails("vector_delete") :
                   LET d == delete_file(files, file_path[r], undeleted)
                       v == VectorStore_delete_document(index, document[r].id, failed)
                   IN  /\ files' = d.files
                       /\ index' = IF d.raised THEN index ELSE v.index
                       /\ faults' = [faults EXCEPT ![r] =
                                       (@ \cup IF undeleted THEN {"file_delete"} ELSE {})
                                          \cup IF failed /\ ~d.raised THEN {"vector_delete"} ELSE {}]
                       /\ calls' = [calls EXCEPT ![r] =
                                      IF d.raised THEN @ \o <<"metadata.add", "file.delete">>
                                      ELSE @ \o <<"metadata.add", "file.delete", "vector.delete">>]
                       /\ exc' = [exc EXCEPT ![r] =
                                    Raise(d.raised, "delete error",
                                          Raise(v.raised, "index error",
                                                HTTPException(500, "Failed to save document metadata")))]
                       /\ pc' = [pc EXCEPT ![r] = "cleanup"]
                       /\ data_to_save' = data_to_save
    /\ UNCHANGED <<chat, chunker, store_call, search, env, metadata_file, kind, file_content, file_path, document, doc_id, result>>

\* document_manager.py 46-51, 59 and main.py 167-174: the record set is
\* written (an IOError is only logged), add_document returns True and the
\* handler returns the DocumentSummary
UploadMetadataDump(r) ==
    /\ pc[r] = "metadata_dump"
    /\ Runs(r)
    /\ current' = 0
    /\ \E outcome \in WriteOutcomes :
         /\ metadata_file' = _save_metadata(metadata_file, data_to_save[r], outcome)
         /\ faults' = [faults EXCEPT ![r] = Suffered(r, "metadata_write", outcome # "ok")]
    /\ calls' = [calls EXCEPT ![r] = Append(@, "metadata.write")]
    /\ result' = [result EXCEPT ![r] = Response(200, "DocumentSummary")]
    /\ pc' = [pc EXCEPT ![r] = "done"]
    /\ data_to_save' = [data_to_save EXCEPT ![r] = EmptyMap]
    /\ UNCHANGED <<chat, chunker, store_call, search, env, files, index, documents, kind, file_content, file_path, document, doc_id, exc>>

\* main.py 176-188: the inner except deletes the raw file and re-raises; an
\* HTTPException passes through, anything else becomes 500 "Upload failed"
UploadCleanup(r) ==
    /\ pc[r] = "cleanup"
    /\ Runs(r)
    /\ current' = 0
    /\ \E failed \in DeleteFails(file_path[r]) :
         LET d == delete_file(files, file_path[r], failed)
         IN  /\ files' = d.files
             /\ faults' = [faults EXCEPT ![r] = Suffered(r, "file_delete", failed)]
             /\ result' = [result EXCEPT ![r] =
                             UploadError(Raise(d.raised, "delete error", exc[r]))]
    /\ calls' = [calls EXCEPT ![r] = Append(@, "file.delete")]
    /\ pc' = [pc EXCEPT ![r] = "done"]
    /\ UNCHANGED <<chat, chunker, store_call, search, env, index, documents, metadata_file, kind, file_content, file_path, document,
                   doc_id, data_to_save, exc>>

--------------------------------------------------------------------------
(* DELETE /documents/{doc_id}                                              *)

\* Mutant: the handler does not look the document up before deleting.
DeleteStartUnchecked(r) ==
    /\ pc[r] = "idle"
    /\ Runs(r)
    /\ kind' = [kind EXCEPT ![r] = "delete"]
    /\ \E id \in Ids : doc_id' = [doc_id EXCEPT ![r] = id]
    /\ pc' = [pc EXCEPT ![r] = "dm_lookup"]
    /\ current' = r
    /\ UNCHANGED <<chat, chunker, store_call, search, env, files, index, documents, metadata_file, file_content,
                   file_path, document, data_to_save, exc, result, calls, faults>>

\* main.py 247-254: get_document; an unknown id is answered 404
DeleteStart(r) ==
    /\ pc[r] = "idle"
    /\ Runs(r)
    /\ kind' = [kind EXCEPT ![r] = "delete"]
    /\ \E id \in Ids :
         /\ doc_id' = [doc_id EXCEPT ![r] = id]
         /\ IF get_document(documents, id) = NoDocument
            THEN /\ result' = [result EXCEPT ![r] = Response(404, "Document not found")]
                 /\ pc' = [pc EXCEPT ![r] = "done"]
                 /\ current' = 0
            ELSE /\ result' = result
                 /\ pc' = [pc EXCEPT ![r] = "dm_lookup"]
                 /\ current' = r
    /\ UNCHANGED <<chat, chunker, store_call, search, env, files, index, documents, metadata_file, file_content, file_path, document,
                   data_to_save, exc, calls, faults>>

\* document_manager.py 81-83 (and main.py 257-263 when it returns False)
DeleteLookup(r) ==
    /\ pc[r] = "dm_lookup"
    /\ Runs(r)
    /\ document' = [document EXCEPT ![r] = get_document(documents, doc_id[r])]
    /\ IF get_document(documents, doc_id[r]) = NoDocument
       THEN /\ result' = [result EXCEPT ![r] = Response(500, "Failed to delete document")]
            /\ pc' = [pc EXCEPT ![r] = "done"]
            /\ current' = 0
       ELSE /\ result' = result
            /\ pc' = [pc EXCEPT ![r] = "dm_vector"]
            /\ current' = r
    /\ UNCHANGED <<chat, chunker, store_call, search, env, files, index, documents, metadata_file, kind, file_content, file_path,
                   doc_id, data_to_save, exc, calls, faults>>

\* Mutant: delete_document returns False as soon as the vector store does.
DeleteVectorAborting(r) ==
    /\ pc[r] = "dm_vector"
    /\ Runs(r)
    /\ \E failed \in Fails("vector_delete") :
         LET d == VectorStore_delete_document(index, doc_id[r], failed)
         IN  /\ index' = d.index
             /\ faults' = [faults EXCEPT ![r] = Suffered(r, "vector_delete", failed)]
             /\ IF d.ret
                THEN /\ pc' = [pc EXCEPT ![r] = "dm_file"]
                     /\ current' = r
                     /\ result' = result
                ELSE /\ pc' = [pc EXCEPT ![r] = "done"]
                     /\ current' = 0
                     /\ result' = [result EXCEPT ![r] = Response(500, "Failed to delete document")]
    /\ calls' = [calls EXCEPT ![r] = Append(@, "vector.delete")]
    /\ UNCHANGED <<chat, chunker, store_call, search, env, files, documents, metadata_file, kind, file_content,
                   file_path, document, doc_id, data_to_save, exc>>

\* document_manager.py 85-88: the vector entries; a False is only logged
DeleteVector(r) ==
    /\ pc[r] = "dm_vector"
    /\ Runs(r)
    /\ current' = r
    /\ \E failed \in Fails("vector_delete") :
         /\ index' = VectorStore_delete_document(index, doc_id[r], failed).index
         /\ faults' = [faults EXCEPT ![r] = Suffered(r, "vector_delete", failed)]
    /\ calls' = [calls EXCEPT ![r] = Append(@, "vector.delete")]
    /\ pc' = [pc EXCEPT ![r] = "dm_file"]
    /\ UNCHANGED <<chat, chunker, store_call, search, env, files, documents, metadata_file, kind, file_content, file_path, document,
                   doc_id, data_to_save, exc, result>>

\* document_manager.py 90-92: the raw file; a False is only logged
DeleteFile(r) ==
    /\ pc[r] = "dm_file"
    /\ Runs(r)
    /\ current' = r
    /\ \E failed \in DeleteFails(document[r].file_path) :
         /\ files' = delete_file(files, document[r].file_path, failed).files
         /\ faults' = [faults EXCEPT ![r] = Suffered(r, "file_delete", failed)]
    /\ calls' = [calls EXCEPT ![r] = Append(@, "file.delete")]
    /\ pc' = [pc EXCEPT ![r] = "dm_metadata"]
    /\ UNCHANGED <<chat, chunker, store_call, search, env, index, documents, metadata_file, kind, file_content, file_path, document,
                   doc_id, data_to_save, exc, result>>

\* document_manager.py 94-100 with 46-48: the record is removed and
\* _save_metadata builds data_to_save (main.py 259-263 on False)
DeleteMetadata(r) ==
    /\ pc[r] = "dm_metadata"
    /\ Runs(r)
    /\ IF doc_id[r] \in DOMAIN documents
       THEN /\ documents' = Without(documents, doc_id[r])
            /\ data_to_save' = [data_to_save EXCEPT ![r] = Without(documents, doc_id[r])]
            /\ calls' = [calls EXCEPT ![r] = Append(@, "metadata.delete")]
            /\ pc' = [pc EXCEPT ![r] = "dm_dump"]
            /\ current' = r
            /\ result' = result
       ELSE /\ result' = [result EXCEPT ![r] = Response(500, "Failed to delete document")]
            /\ pc' = [pc EXCEPT ![r] = "done"]
            /\ current' = 0
            /\ UNCHANGED <<documents, data_to_save, calls>>
    /\ UNCHANGED <<chat, chunker, store_call, search, env, files, index, metadata_file, kind, file_content, file_path, document,
                   doc_id, exc, faults>>

\* document_manager.py 46-51, 98-99 and main.py 257-258: the record set is
\* written (an IOError is only logged) and the handler answers 200
DeleteDump(r) ==
    /\ pc[r] = "dm_dump"
    /\ Runs(r)
    /\ current' = 0
    /\ \E outcome \in WriteOutcomes :
         /\ metadata_file' = _save_metadata(metadata_file, data_to_save[r], outcome)
         /\ faults' = [faults EXCEPT ![r] = Suffered(r, "metadata_write", outcome # "ok")]
    /\ calls' = [calls EXCEPT ![r] = Append(@, "metadata.write")]
    /\ result' = [result EXCEPT ![r] = Response(200, "Document deleted successfully")]
    /\ pc' = [pc EXCEPT ![r] = "done"]
    /\ data_to_save' = [data_to_save EXCEPT ![r] = EmptyMap]
    /\ UNCHANGED <<chat, chunker, store_call, search, env, files, index, documents, kind, file_content, file_path, document, doc_id, exc>>

--------------------------------------------------------------------------

Next ==
    \E r \in Reqs :
        \/ UploadStart(r)
        \/ UploadSave(r)
        \/ UploadValidate(r)
        \/ UploadProcess(r)
        \/ UploadVectorAdd(r)
        \/ UploadMetadataAdd(r)
        \/ UploadMetadataDump(r)
        \/ UploadCleanup(r)
        \/ DeleteStart(r)
        \/ DeleteLookup(r)
        \/ DeleteVector(r)
        \/ DeleteFile(r)
        \/ DeleteMetadata(r)
        \/ DeleteDump(r)

\* Every dependency may fail.
Spec == Init /\ [][Next]_vars

\* The local disk is reliable: saving and deleting raw files and writing the
\* metadata file succeed; the text extractor and the vector store may fail.
InitDisk == env = AllFaults \ DiskFaults /\ Startup

SpecDisk == InitDisk /\ [][Next]_vars

\* Every dependency may fail, and uuid4 may repeat a document id.
InitCollide == env = AllFaults \cup {Collision} /\ Startup

SpecCollide == InitCollide /\ [][Next]_vars

--------------------------------------------------------------------------
(* Properties                                                              *)

Quiescent == \A r \in Reqs : pc[r] \in {"idle", "done"}

HasEntries(id) == \E e \in index : e.document_id = id

HasRecord(id) == id \in DOMAIN documents

\* The raw file of a document: the one its record points to; for an id
\* without a record, the file saved by the upload that drew that id.
RawFileExists(id) ==
    IF HasRecord(id) THEN documents[id].file_path \in DOMAIN files
    ELSE id \in DOMAIN files

Finished(r, k) == kind[r] = k /\ pc[r] = "done"

Failed(r) == result[r].status >= 400

Called(r, op) == \E i \in 1..Len(calls[r]) : calls[r][i] = op

\* C1: once no request is in progress, every document id has a metadata
\* record iff it has vector-index entries iff its raw file exists, whichever
\* of text extraction, vector add, metadata save, vector delete and file
\* delete failed in the uploads and deletes.
C1_ThreeWayConsistency ==
    (Quiescent /\ \A r \in Reqs : "file_save" \notin faults[r]) =>
        \A id \in Ids : /\ HasRecord(id) <=> HasEntries(id)
                        /\ HasRecord(id) <=> RawFileExists(id)

\* C2: an upload whose vector add failed is reported as failed, leaves no
\* metadata record (in memory or on disk) and its raw file no longer exists.
C2_AtomicOnIndexFailure ==
    \A r \in Reqs :
        (Finished(r, "upload") /\ "vector_add" \in faults[r]) =>
            /\ result[r] = Response(500, "Failed to add document to vector store")
            /\ ~HasRecord(r)
            /\ r \notin DOMAIN _load_metadata(metadata_file)
            /\ r \notin DOMAIN files

C2_Witness ==
    \E r \in Reqs : Finished(r, "upload") /\ "vector_add" \in faults[r]

\* C3: an upload during which writing the persisted record set failed is
\* reported as failed, its vector entries are deleted and its raw file is
\* deleted.
C3_PersistFailureCompensated ==
    \A r \in Reqs :
        (Finished(r, "upload") /\ "metadata_write" \in faults[r]) =>
            /\ Failed(r)
            /\ ~HasEntries(r)
            /\ r \notin DOMAIN files

\* The upload's file passed validation and its extracted text is blank.
BlankText(r) ==
    /\ file_path[r] # 0
    /\ validate_pdf(file_content[r])
    /\ "extract" \notin faults[r]
    /\ strip(_extract_text_from_pdf(file_content[r])) = <<>>

\* C4: an upload whose extracted text is blank fails with the content
\* error; no Document is built, the vector index is never called, nothing
\* is written to the metadata store and the saved raw file is gone.
C4_BlankTextRejected ==
    \A r \in Reqs :
        (Finished(r, "upload") /\ BlankText(r)) =>
            /\ Failed(r)
            /\ result[r].detail = "PDF contains no extractable text"
            /\ document[r] = NoDocument
            /\ ~Called(r, "vector.add") /\ ~Called(r, "vector.delete")
            /\ ~Called(r, "metadata.add") /\ ~Called(r, "metadata.write")
            /\ ~HasRecord(r) /\ ~HasEntries(r)
            /\ r \notin DOMAIN files

C4_Witness ==
    \E r \in Reqs : Finished(r, "upload") /\ BlankText(r)

\* C5: every Document a successful upload returned, and every Document in
\* the metadata store (in memory and as persisted), has at least one chunk.
C5_NoZeroChunkDocuments ==
    /\ \A r \in Reqs :
         (Finished(r, "upload") /\ result[r].status = 200) => Len(document[r].chunks) >= 1
    /\ \A id \in DOMAIN documents : Len(documents[id].chunks) >= 1
    /\ \A id \in DOMAIN metadata_file.data : Len(metadata_file.data[id].chunks) >= 1

C5_Witness ==
    \E r \in Reqs : /\ Finished(r, "upload") /\ result[r].status = 200
                    /\ HasRecord(r) /\ r \in DOMAIN metadata_file.data

\* C6: after a delete of an existing document reported success, the
\* document has no vector entries, no raw file and no metadata record.
C6_DeleteRemovesAll ==
    \A r \in Reqs :
        (Finished(r, "delete") /\ result[r].status = 200) =>
            /\ ~HasEntries(doc_id[r])
            /\ document[r].file_path \notin DOMAIN files
            /\ ~HasRecord(doc_id[r])

DeleteSteps == <<"vector.delete", "file.delete", "metadata.delete", "metadata.write">>

\* C7: a delete of an existing document attempts the vector entries, the
\* raw file and the metadata record in that order, and a failed vector or
\* file step does not keep the later steps from being attempted.
C7_DeleteOrderBestEffort ==
    \A r \in Reqs :
        kind[r] = "delete" =>
            /\ calls[r] = SubSeq(DeleteSteps, 1, Len(calls[r]))
            /\ (pc[r] = "done" /\ result[r].status # 404) => calls[r] = DeleteSteps

C7_Witness ==
    \E r \in Reqs : /\ Finished(r, "delete")
                    /\ {"vector_delete", "file_delete"} \subseteq faults[r]
                    /\ calls[r] = DeleteSteps

\* C8: a delete of an id that has no record (never existed or already
\* deleted) is answered not-found and changes no store.
C8_IdempotentDelete ==
    [][\A r \in Reqs :
         (pc[r] = "idle" /\ kind'[r] = "delete" /\ doc_id'[r] \notin DOMAIN documents) =>
             /\ result'[r] = Response(404, "Document not found")
             /\ pc'[r] = "done"
             /\ calls'[r] = <<>>
             /\ UNCHANGED <<files, index, documents, metadata_file>>]_vars

C8_Witness ==
    \E r1, r2 \in Reqs :
        /\ Finished(r1, "delete") /\ result[r1].status = 200
        /\ Finished(r2, "delete") /\ result[r2].status = 404
        /\ doc_id[r1] = doc_id[r2]

Uploaded == {r \in Reqs : Finished(r, "upload") /\ result[r].status = 200}

Deleted == {doc_id[r] : r \in {q \in Reqs : Finished(q, "delete") /\ result[q].status = 200}}

\* C9: whatever the interleaving of the requests, once all have completed
\* the metadata store, in memory and as persisted, holds exactly the
\* documents whose upload succeeded and that were not successfully deleted.
C9_NoLostUpdates ==
    Quiescent =>
        /\ DOMAIN documents = Uploaded \ Deleted
        /\ metadata_file.valid
        /\ metadata_file.data = documents

C9_Witness ==
    /\ Quiescent
    /\ Cardinality(Uploaded) >= 2
    /\ Deleted # {}
    /\ documents # EmptyMap

--------------------------------------------------------------------------
(* VectorStore.search on its own: any index content, any query.            *)

\* Bounds: entries in the searched index, and the largest n_results.
MaxEntries == 3
MaxResults == 2

IndexedIds == {1, 2}

IndexContents ==
    {idx \in SUBSET {[document_id |-> d, chunk_index |-> c] : d \in IndexedIds, c \in {0, 1}} :
        Cardinality(idx) <= MaxEntries}

\* The document_ids argument: None, or a list of ids (an unknown id included)
DocumentIdLists ==
    {[given |-> FALSE, ids |-> {}]}
        \cup {[given |-> TRUE, ids |-> S] : S \in SUBSET (IndexedIds \cup {0})}

\* The index holds anything; the arguments of the call are drawn: n_results,
\* document_ids, and the query, given by the distance of its embedding to
\* each entry.
InitSearch ==
    /\ env = AllFaults
    /\ index \in IndexContents
    /\ files = EmptyMap
    /\ documents = EmptyMap
    /\ metadata_file = [valid |-> TRUE, data |-> EmptyMap]
    /\ store_call = NoCall
    /\ chunker = NoChunker
    /\ chat = NoChat
    /\ NoRequests
    /\ \E n_results \in 1..MaxResults, document_ids \in DocumentIdLists,
          distance \in [index -> Distances] :
         search = [NoSearch EXCEPT !.n_results = n_results,
                                   !.document_ids = document_ids,
                                   !.distance = distance]

\* vector_store.py 74-119: search(query, n_results, document_ids)
Search ==
    /\ ~search.called
    /\ store_call = NoCall
    /\ \E failed \in Fails("search") :
       \E hits \in collection_query(index, search.distance, search.n_results,
                                    where_clause(search.document_ids)) :
         LET s == VectorStore_search(hits, search.distance, failed)
         IN  search' = [search EXCEPT !.called = TRUE,
                                      !.failed = failed,
                                      !.hits = IF failed THEN <<>> ELSE hits,
                                      !.raised = s.raised,
                                      !.sources = s.ret]
    /\ UNCHANGED <<chat, chunker, store_call, env, files, index, documents, metadata_file, current, kind,
                   pc, file_content, file_path, document, doc_id, data_to_save, exc,
                   result, calls, faults>>

SpecSearch == InitSearch /\ [][Search]_vars

\* C10: search returns at most n_results sources, in the index's order of
\* ascending distance, each scored max(0, 1 - d); so the scores never
\* increase along the result and lie between 0 and 1.
C10_SearchResultShape ==
    search.called =>
        LET sources == search.sources
        IN  /\ Len(sources) <= search.n_results
            /\ Len(sources) = Len(search.hits)
            /\ \A i \in 1..Len(sources) :
                 LET d == search.distance[search.hits[i]]
                 IN  /\ sources[i].document_id = search.hits[i].document_id
                     /\ sources[i].chunk_index = search.hits[i].chunk_index
                     /\ d <= DistUnit => sources[i].relevance_score = DistUnit - d
                     /\ d >= DistUnit => sources[i].relevance_score = 0
                     /\ sources[i].relevance_score \in 0..DistUnit
            /\ \A i \in 1..(Len(sources) - 1) :
                 /\ search.distance[search.hits[i]] <= search.distance[search.hits[i + 1]]
                 /\ sources[i].relevance_score >= sources[i + 1].relevance_score

C10_Witness ==
    /\ search.called
    /\ Len(search.sources) = MaxResults
    /\ search.sources[1].relevance_score > search.sources[2].relevance_score
    /\ search.sources[MaxResults].relevance_score = 0
    /\ search.distance[search.hits[MaxResults]] > DistUnit

\* C11: when search is called with a document_ids list, of any length and
\* the empty list included, every source it returns has a document_id that
\* is in the list.
C11_FilterRestricts ==
    (search.called /\ search.document_ids.given) =>
        \A i \in 1..Len(search.sources) :
            search.sources[i].document_id \in search.document_ids.ids

\* The index holds chunks, and all of them belong to document d.
OnlyDocument(d) == index # {} /\ \A e \in index : e.document_id = d

\* C12: search never raises; on an empty index it returns the empty
\* sequence; on an index that holds the chunks of one document only, a
\* search without document_ids and with n_results >= 1, answered by the
\* embedding model and the collection, returns at least one source with
\* that document's id.
C12_EmptyIndexAndSingleDocument ==
    search.called =>
        /\ ~search.raised
        /\ index = {} => search.sources = <<>>
        /\ \A d \in IndexedIds :
             (OnlyDocument(d) /\ ~search.document_ids.given
                /\ search.n_results >= 1 /\ ~search.failed) =>
                 \E i \in 1..Len(search.sources) : search.sources[i].document_id = d

C12_Witness ==
    /\ search.called
    /\ ~search.failed
    /\ ~search.document_ids.given
    /\ \E d \in IndexedIds : OnlyDocument(d)
    /\ Len(search.sources) >= 1

--------------------------------------------------------------------------
(* VectorStore on its own: one call of add_document, search or             *)
(* delete_document on any index content.                                   *)

\* The documents add_document is given: a fresh id, one chunk or more.
NewDocuments ==
    {[id |-> Cardinality(IndexedIds) + 1, file_path |-> 0,
      chunks |-> [i \in 1..n |->
                    [document_id |-> Cardinality(IndexedIds) + 1, content |-> <<"a">>,
                     chunk_index |-> i - 1, start_char |-> 0, end_char |-> 1]]] :
        n \in 1..MaxResults}

\* vector_store.py 34-72: add_document(document)
IndexAdd ==
    /\ ~search.called
    /\ store_call = NoCall
    /\ \E doc \in NewDocuments, failed \in Fails("vector_add") :
       \E inserted \in IF failed THEN 0..Len(doc.chunks) ELSE {0} :
         LET a == VectorStore_add_document(index, doc, failed, inserted)
         IN  /\ index' = a.index
             /\ store_call' = [op |-> "add", document_id |-> doc.id, before |-> index,
                               failed |-> failed, raised |-> a.raised, ret |-> a.ret]
    /\ UNCHANGED <<chat, chunker, search, env, files, documents, metadata_file, current, kind, pc,
                   file_content, file_path, document, doc_id, data_to_save, exc,
                   result, calls, faults>>

\* vector_store.py 121-145: delete_document(document_id), of an indexed
\* document or of an unknown id
IndexDelete ==
    /\ ~search.called
    /\ store_call = NoCall
    /\ \E id \in IndexedIds \cup {0}, failed \in Fails("vector_delete") :
         LET d == VectorStore_delete_document(index, id, failed)
         IN  /\ index' = d.index
             /\ store_call' = [op |-> "delete", document_id |-> id, before |-> index,
                               failed |-> failed, raised |-> d.raised, ret |-> d.ret]
    /\ UNCHANGED <<chat, chunker, search, env, files, documents, metadata_file, current, kind, pc,
                   file_content, file_path, document, doc_id, data_to_save, exc,
                   result, calls, faults>>

NextIndex == Search \/ IndexAdd \/ IndexDelete

SpecIndex == InitSearch /\ [][NextIndex]_vars

\* C13: whatever the embedding model or the collection raises inside
\* add_document, search or delete_document is caught there: no exception
\* reaches the caller, a failed add or delete returns False and a failed
\* search returns the empty list.
C13_FailureContained ==
    /\ store_call.op \in {"add", "delete"} =>
         /\ ~store_call.raised
         /\ store_call.failed => store_call.ret = FALSE
    /\ search.called =>
         /\ ~search.raised
         /\ search.failed => search.sources = <<>>

C13_Witness ==
    \/ store_call.op = "add" /\ store_call.failed /\ index # store_call.before
    \/ store_call.op = "delete" /\ store_call.failed /\ index # {}
    \/ search.called /\ search.failed /\ index # {}

\* The entries of the document in the index the call found.
Matched == {e \in store_call.before : e.document_id = store_call.document_id}

\* C14: when delete_document returns True, every entry of the document has
\* been removed and the entries of the other documents are as before; when
\* no entry is the document's, it changes nothing and returns False without
\* raising.
C14_DeleteByDocument ==
    store_call.op = "delete" =>
        /\ ~store_call.raised
        /\ store_call.ret = TRUE => index = store_call.before \ Matched
        /\ Matched = {} => index = store_call.before /\ store_call.ret = FALSE

C14_Witness ==
    /\ store_call.op = "delete"
    /\ store_call.ret = TRUE
    /\ Cardinality(Matched) >= 2
    /\ index # {}

--------------------------------------------------------------------------
(* PDFProcessor._create_chunks on its own, one loop iteration per step.    *)

\* Bound: the boundary texts fill up to this many windows.
MaxWindows == 3

DigitChars == <<"0", "1", "2", "3", "4", "5", "6", "7", "8", "9">>

\* The k-th word of a generated text: the decimal numeral of k.
RECURSIVE Numeral(_)
Numeral(k) ==
    IF k < 10 THEN <<DigitChars[k + 1]>>
    ELSE Append(Numeral(k \div 10), DigitChars[(k % 10) + 1])

\* The words a to b with sep between neighbours.
RECURSIVE TextRange(_, _, _)
TextRange(a, b, sep) ==
    IF a = b THEN Numeral(a)
    ELSE TextRange(a, (a + b) \div 2, sep) \o sep \o TextRange((a + b) \div 2 + 1, b, sep)

\* The text of n distinct words with sep between neighbours.
TextOf(n, sep) == TextRange(1, n, sep)

\* What separates two words of an extracted text: a space, a line break,
\* two spaces, or the blank line _extract_text_from_pdf puts between pages.
Separators == {<<" ">>, <<"\n">>, <<" ", " ">>, <<"\n", "\n">>}

AlphaText ==
    <<"a", "l", "p", "h", "a", " ", "b", "e", "t", "a", " ",
      "g", "a", "m", "m", "a", " ", "d", "e", "l", "t", "a", " ",
      "e", "p", "s", "i", "l", "o", "n">>

\* The word counts at which one more window is needed.
Boundaries == {chunk_size + k * (chunk_size - overlap_size) : k \in 0..(MaxWindows - 1)}

WordCounts == {1, 2, 5, 1300} \cup {b + d : b \in Boundaries, d \in {-1, 0, 1}}

\* The texts process_pdf passes on: stripped, with at least one word.
ChunkTexts == {AlphaText} \cup {TextOf(n, sep) : n \in WordCounts, sep \in Separators}

InitChunk ==
    /\ env = AllFaults
    /\ files = EmptyMap
    /\ index = {}
    /\ documents = EmptyMap
    /\ metadata_file = [valid |-> TRUE, data |-> EmptyMap]
    /\ search = NoSearch
    /\ store_call = NoCall
    /\ chat = NoChat
    /\ NoRequests
    /\ \E text \in ChunkTexts, id \in IndexedIds :
         chunker = [NoChunker EXCEPT !.pc = "call", !.text = text, !.doc_id = id]

\* document_processor.py 82-92: words = text.split(); no word, no chunk
ChunkSplit ==
    /\ chunker.pc = "call"
    /\ LET words == split(chunker.text)
       IN  chunker' = [chunker EXCEPT !.words = words,
                                      !.pc = IF words = <<>> THEN "done" ELSE "loop"]
    /\ UNCHANGED <<chat, store_call, search, env, files, index, documents, metadata_file,
                   current, kind, pc, file_content, file_path, document, doc_id,
                   data_to_save, exc, result, calls, faults>>

\* document_processor.py 94-124: one evaluation of the while condition and,
\* when it holds, one run of the loop body
ChunkWindow ==
    /\ chunker.pc = "loop"
    /\ IF ~(chunker.start_idx < Len(chunker.words))
       THEN chunker' = [chunker EXCEPT !.pc = "done"]
       ELSE LET w == Window(chunker.words, chunker.doc_id,
                            chunker.start_idx, chunker.chunk_index)
            IN  chunker' =
                  IF w.break
                  THEN [chunker EXCEPT !.chunks = Append(@, w.chunk), !.pc = "done"]
                  ELSE [chunker EXCEPT !.chunks = Append(@, w.chunk),
                                       !.start_idx = w.start_idx,
                                       !.chunk_index = w.chunk_index]
    /\ UNCHANGED <<chat, store_call, search, env, files, index, documents, metadata_file,
                   current, kind, pc, file_content, file_path, document, doc_id,
                   data_to_save, exc, result, calls, faults>>

NextChunk == ChunkSplit \/ ChunkWindow

SpecChunk == InitChunk /\ [][NextChunk]_vars

Returned == chunker.pc = "done"

\* C15: for a non-empty text the chunker returns n >= 1 chunks whose
\* chunk_index values are 0, 1, ..., n-1 in sequence order, each carrying
\* the document id the chunker was given.
C15_ChunkIndexContiguity ==
    (Returned /\ chunker.text # <<>>) =>
        /\ Len(chunker.chunks) >= 1
        /\ \A i \in 1..Len(chunker.chunks) :
             /\ chunker.chunks[i].chunk_index = i - 1
             /\ chunker.chunks[i].document_id = chunker.doc_id

C15_Witness ==
    Returned /\ Len(chunker.chunks) >= 3

\* C16: a text of 1 to 600 words gives exactly one chunk, with chunk_index
\* 0, start_char 0, end_char the length of the space-joined words and the
\* space-joined words as content; 'alpha beta gamma delta epsilon' gives
\* end_char 30.
C16_SingleWindow ==
    (Returned /\ Len(chunker.words) \in 1..600) =>
        /\ Len(chunker.chunks) = 1
        /\ chunker.chunks[1].chunk_index = 0
        /\ chunker.chunks[1].start_char = 0
        /\ chunker.chunks[1].end_char = Len(join(chunker.words))
        /\ chunker.chunks[1].content = join(chunker.words)
        /\ chunker.chunks[1].document_id = chunker.doc_id
        /\ chunker.text = AlphaText =>
             Len(chunker.words) = 5 /\ chunker.chunks[1].end_char = 30

C16_Witness ==
    /\ Returned
    /\ chunker.text = AlphaText
    /\ Len(chunker.chunks) = 1

\* The space-joined words a (included) to b (excluded), counted from 0.
WordRange(a, b) == join(SubSeq(chunker.words, a + 1, b))

\* The words from start_idx on: what the loop has not yet passed.
WordsLeft == Len(chunker.words) - chunker.start_idx

\* C17: the chunking loop terminates for every text: each iteration either
\* returns or leaves the loop with strictly fewer, and more than zero, words
\* from start_idx on; and a text of 1300 words gives exactly 3 chunks, of
\* the words [0,600), [500,1100) and [1000,1300).
C17_ChunkerTerminates ==
    /\ [][chunker.pc = "loop" =>
            \/ chunker'.pc = "done"
            \/ chunker'.pc = "loop" /\ 0 < WordsLeft' /\ WordsLeft' < WordsLeft]_vars
    /\ [](Len(chunker.words) = 1300 =>
            /\ Len(chunker.chunks) <= 3
            /\ Returned =>
                 /\ Len(chunker.chunks) = 3
                 /\ chunker.chunks[1].content = WordRange(0, 600)
                 /\ chunker.chunks[2].content = WordRange(500, 1100)
                 /\ chunker.chunks[3].content = WordRange(1000, 1300))

C17_Witness ==
    Returned /\ Len(chunker.words) = 1300 /\ Len(chunker.chunks) = 3

\* text[start:end] of Python
Slice(text, start, end) == SubSeq(text, start + 1, Min2(end, Len(text)))

\* C18: every chunk's content is the part of the text it was produced from
\* between its start_char and its end_char, whatever whitespace separates
\* the words of the text.
C18_OffsetsIntoOriginalText ==
    \A i \in 1..Len(chunker.chunks) :
        chunker.chunks[i].content =
            Slice(chunker.text, chunker.chunks[i].start_char, chunker.chunks[i].end_char)

\* The word range the claimed stride gives chunk k (from 0) of n words.
FirstWord(k) == 500 * k

EndWord(k) == Min2(500 * k + 600, Len(chunker.words))

\* C24: for a text of n > 600 words, chunk k holds the words
\* [500k, min(500k + 600, n)); consecutive chunks share exactly 100 words,
\* every word is in some chunk, the last chunk ends at the last word, and no
\* chunk's range lies within the range of the chunk before it.
C24_StrideAndCoverage ==
    Len(chunker.words) > 600 =>
        /\ \A i \in 1..Len(chunker.chunks) :
             /\ FirstWord(i - 1) < Len(chunker.words)
             /\ chunker.chunks[i].content = WordRange(FirstWord(i - 1), EndWord(i - 1))
             /\ i > 1 =>
                  /\ Min2(EndWord(i - 2), EndWord(i - 1)) - FirstWord(i - 1) = 100
                  /\ EndWord(i - 1) > EndWord(i - 2)
        /\ Returned =>
             /\ Len(chunker.chunks) >= 2
             /\ EndWord(Len(chunker.chunks) - 1) = Len(chunker.words)
             /\ \A w \in 0..(Len(chunker.words) - 1) :
                  \E i \in 1..Len(chunker.chunks) :
                      FirstWord(i - 1) <= w /\ w < EndWord(i - 1)

\* The last of three windows holds one word more than the overlap.
C24_Witness ==
    /\ Returned
    /\ Len(chunker.words) = 1101
    /\ Len(chunker.chunks) = 3
    /\ chunker.chunks[3].content = WordRange(1000, 1101)

\* C25: every chunk has end_char > start_char and end_char - start_char the
\* length of its content; the first chunk starts at 0; from one chunk to the
\* next start_char and end_char both grow, and the next chunk starts before
\* the end of the previous one, by the characters of the 100 shared words.
C25_OffsetBookkeeping ==
    \A i \in 1..Len(chunker.chunks) :
        LET c == chunker.chunks[i]
        IN  /\ c.end_char > c.start_char
            /\ c.end_char - c.start_char = Len(c.content)
            /\ i = 1 => c.start_char = 0
            /\ i > 1 =>
                 LET p == chunker.chunks[i - 1]
                 IN  /\ c.start_char > p.start_char
                     /\ c.end_char > p.end_char
                     /\ c.start_char <= p.end_char + 1
                     /\ p.end_char - c.start_char =
                            Len(WordRange(500 * (i - 1), 500 * (i - 1) + 100))

\* Two windows were cut from a text whose words are two spaces apart.
C25_Witness ==
    /\ Returned
    /\ Len(chunker.chunks) = 2
    /\ chunker.text = TextOf(Len(chunker.words), <<" ", " ">>)
    /\ chunker.chunks[2].start_char < chunker.chunks[1].end_char

--------------------------------------------------------------------------
(* Not-found and failure; compensation                                     *)

\* What VectorStore.delete_document reports for an id that has no entry.
NotFoundAtIndex ==
    LET d == VectorStore_delete_document(index \ {e \in index : e.document_id = 0}, 0, FALSE)
    IN  [raised |-> d.raised, ret |-> d.ret]

\* A delete request that suffered a failure of the index or the file system.
DependencyFailed(r) ==
    Finished(r, "delete") /\ faults[r] \cap {"vector_delete", "file_delete"} # {}

\* C19: the result reported for an unknown document id differs from the
\* result reported when a dependency fails, at VectorStore.delete_document
\* and at DELETE /documents/{doc_id}.
C19_NotFoundDistinctFromFailure ==
    /\ (store_call.op = "delete" /\ store_call.failed) =>
            [raised |-> store_call.raised, ret |-> store_call.ret] # NotFoundAtIndex
    /\ \A r \in Reqs :
            DependencyFailed(r) => result[r] # Response(404, "Document not found")

\* add_document returned False: the record was not written.
MetadataStepFailed(r) == Called(r, "metadata.add") /\ ~Called(r, "metadata.write")

\* C20: an upload whose vector add failed, or whose metadata add failed,
\* and whose compensating delete of the raw file or of the vector entries
\* failed as well, is answered with the failure of the original step, and
\* never as a success.
C20_CompensationFailureNotMasked ==
    \A r \in Reqs :
        Finished(r, "upload") =>
            /\ {"vector_add", "file_delete"} \subseteq faults[r] =>
                    result[r] = Response(500, "Failed to add document to vector store")
            /\ (MetadataStepFailed(r)
                    /\ faults[r] \cap {"file_delete", "vector_delete"} # {}) =>
                    result[r] = Response(500, "Failed to save document metadata")

C20_Witness ==
    \E r1, r2 \in Reqs :
        /\ Finished(r1, "upload") /\ {"vector_add", "file_delete"} \subseteq faults[r1]
        /\ Finished(r2, "upload") /\ MetadataStepFailed(r2)
        /\ {"file_delete", "vector_delete"} \subseteq faults[r2]

\* C26: after an upload whose vector add reported failure has been answered
\* as failed, the index holds no entry with the id of the attempted document,
\* whatever number of its chunks collection.add had inserted when it raised.
C26_NoIndexResidue ==
    \A r \in Reqs :
        (Finished(r, "upload") /\ Failed(r) /\ "vector_add" \in faults[r]) =>
            ~HasEntries(document[r].id)

\* An upload that saved its raw file and was answered as failed.
SavedAndFailed(r) == Finished(r, "upload") /\ Failed(r) /\ file_path[r] # 0

\* The number of deletions of the raw file request r has called for.
FileDeletes(r) == Cardinality({i \in 1..Len(calls[r]) : calls[r][i] = "file.delete"})

C28_DuplicateAddRejected ==
    [][\A r \in Reqs :
         (pc[r] = "metadata_add" /\ pc'[r] # "metadata_add"
              /\ document[r].id \in DOMAIN documents) =>
            /\ pc'[r] = "cleanup"
            /\ documents' = documents
            /\ metadata_file' = metadata_file
            /\ _load_metadata(metadata_file') = _load_metadata(metadata_file)]_vars

\* An upload was refused for its id, and the record that holds the id is
\* the one of another upload.
C28_Witness ==
    \E r \in Reqs :
        /\ Finished(r, "upload")
        /\ MetadataStepFailed(r)
        /\ HasRecord(document[r].id)
        /\ documents[document[r].id].file_path # file_path[r]

\* C29: when add_document or delete_document of the metadata store returns
\* True, the record set a restart would load from the metadata file has the
\* ids of the record set in memory.
C29_DurableRecordSet ==
    [][\A r \in Reqs :
         (pc[r] \in {"metadata_dump", "dm_dump"} /\ pc'[r] = "done") =>
            DOMAIN _load_metadata(metadata_file') = DOMAIN documents']_vars

\* The position of the first call of op in the log of request r (0: none).
FirstCall(r, op) ==
    IF Called(r, op)
    THEN CHOOSE i \in 1..Len(calls[r]) :
            calls[r][i] = op /\ \A j \in 1..(i - 1) : calls[r][j] # op
    ELSE 0

\* C21: a failed ingestion step is followed by the undoing of the completed
\* steps in the reverse of the order they were done in (file save, then
\* index insert): when the metadata add fails, the vector entries are
\* deleted before the raw file is deleted.
C21_ReverseOrderCompensation ==
    \A r \in Reqs :
        (kind[r] = "upload" /\ MetadataStepFailed(r) /\ Called(r, "file.delete")) =>
            /\ Called(r, "vector.delete")
            /\ FirstCall(r, "vector.delete") < FirstCall(r, "file.delete")

--------------------------------------------------------------------------
(* POST /chat                                                              *)

\* main.py 204: the n_results a chat passes to search
chat_n_results == 5

\* The questions a chat is asked: empty, blank, and with text.
Questions == {<<>>, <<" ">>, <<" ", "\n">>, <<"q">>, <<" ", "q", " ">>}

NoInformation == "I couldn't find any relevant information"

\* Mutant: the handler has no branch for an empty search result.
not_sources_never(sources) == FALSE

\* main.py 208: `not sources`, true of the empty list
not_sources(sources) == sources = <<>>

\* llm_client.py 16-59: generate_response, a plain function.  failed: the
\* API call raised; the except clause returns an apology without sources.
generate_response(sources, failed) ==
    except_Exception(
        IF failed THEN [raised |-> TRUE, ret |-> NoChatResponse]
        ELSE [raised |-> FALSE, ret |-> [answer |-> "generated", sources |-> sources]],
        [answer |-> "I apologize, but I encountered an error", sources |-> <<>>])

\* A ChatResponse is a pydantic model: it has no __await__.
is_awaitable(value) == FALSE

\* main.py 216: `await` applied to the value the call returned; on a value
\* that is not awaitable the expression raises TypeError.
await(value) ==
    IF is_awaitable(value) THEN [raised |-> FALSE, ret |-> value]
    ELSE [raised |-> TRUE, ret |-> NoChatResponse]

\* main.py 220-227: what the except clauses make of the exception in flight
ChatError(e) ==
    IF e.http THEN Response(e.status, e.detail)
    ELSE [status |-> 500, prefix |-> "Chat failed: ", detail |-> e.detail]

\* Any index content; the request is drawn: the question, document_ids, and
\* the distance of the question's embedding to each entry.
InitChat ==
    /\ env = AllFaults
    /\ index \in IndexContents
    /\ files = EmptyMap
    /\ documents = EmptyMap
    /\ metadata_file = [valid |-> TRUE, data |-> EmptyMap]
    /\ store_call = NoCall
    /\ chunker = NoChunker
    /\ NoRequests
    /\ \E document_ids \in DocumentIdLists, distance \in [index -> Distances] :
         search = [NoSearch EXCEPT !.document_ids = document_ids,
                                   !.distance = distance]
    /\ \E question \in Questions :
         chat = [NoChat EXCEPT !.pc = "start", !.question = question]

\* main.py 195-199: a blank question is rejected
ChatStart ==
    /\ chat.pc = "start"
    /\ chat' = IF strip(chat.question) = <<>>
               THEN [chat EXCEPT
                       !.pc = "done",
                       !.exc = HTTPException(400, "Question cannot be empty"),
                       !.result = ChatError(HTTPException(400, "Question cannot be empty"))]
               ELSE [chat EXCEPT !.pc = "search"]
    /\ UNCHANGED <<chunker, store_call, search, env, files, index, documents,
                   metadata_file, current, kind, pc, file_content, file_path,
                   document, doc_id, data_to_save, exc, result, calls, faults>>

\* main.py 201-213: the search, and the answer given when it finds nothing
ChatSearch ==
    /\ chat.pc = "search"
    /\ \E failed \in Fails("search") :
       \E hits \in collection_query(index, search.distance, chat_n_results,
                                    where_clause(search.document_ids)) :
         LET s == VectorStore_search(hits, search.distance, failed)
         IN  /\ search' = [search EXCEPT !.called = TRUE,
                                         !.n_results = chat_n_results,
                                         !.failed = failed,
                                         !.hits = IF failed THEN <<>> ELSE hits,
                                         !.raised = s.raised,
                                         !.sources = s.ret]
             /\ chat' = IF not_sources(s.ret)
                        THEN [chat EXCEPT
                                !.searched = TRUE,
                                !.sources = s.ret,
                                !.pc = "done",
                                !.result = Response(200, ""),
                                !.body = [answer |-> NoInformation, sources |-> <<>>]]
                        ELSE [chat EXCEPT !.searched = TRUE,
                                          !.sources = s.ret,
                                          !.pc = "generate"]
    /\ UNCHANGED <<chunker, store_call, env, files, index, documents,
                   metadata_file, current, kind, pc, file_content, file_path,
                   document, doc_id, data_to_save, exc, result, calls, faults>>

\* main.py 216: the call claude_client.generate_response(question, sources)
ChatGenerate ==
    /\ chat.pc = "generate"
    /\ \E failed \in Fails("llm") :
         LET g == generate_response(chat.sources, failed)
         IN  chat' = [chat EXCEPT !.generated = TRUE,
                                  !.llm_failed = failed,
                                  !.response = g.ret,
                                  !.pc = "await"]
    /\ UNCHANGED <<chunker, store_call, search, env, files, index, documents,
                   metadata_file, current, kind, pc, file_content, file_path,
                   document, doc_id, data_to_save, exc, result, calls, faults>>

\* main.py 216-227: the await of the value returned, then the return of the
\* response or the except clauses
ChatAwait ==
    /\ chat.pc = "await"
    /\ LET a == await(chat.response)
       IN  chat' = IF a.raised
                   THEN [chat EXCEPT
                           !.pc = "done",
                           !.exc = Exception("TypeError"),
                           !.result = ChatError(Exception("TypeError"))]
                   ELSE [chat EXCEPT !.pc = "done",
                                     !.result = Response(200, ""),
                                     !.body = a.ret]
    /\ UNCHANGED <<chunker, store_call, search, env, files, index, documents,
                   metadata_file, current, kind, pc, file_content, file_path,
                   document, doc_id, data_to_save, exc, result, calls, faults>>

NextChat == ChatStart \/ ChatSearch \/ ChatGenerate \/ ChatAwait

SpecChat == InitChat /\ [][NextChat]_vars

ChatDone == chat.pc = "done"

\* C22: the answer generator is called only after search returned at least
\* one source; a chat whose search returned nothing answers "no relevant
\* information" with no sources and never calls the generator; a blank
\* question is rejected before search is called.
C22_NoGroundingNoGeneration ==
    /\ chat.generated => (search.called /\ chat.searched /\ chat.sources # <<>>)
    /\ (ChatDone /\ chat.searched /\ chat.sources = <<>>) =>
          /\ chat.result = Response(200, "")
          /\ chat.body = [answer |-> NoInformation, sources |-> <<>>]
          /\ ~chat.generated
    /\ (strip(chat.question) = <<>> /\ chat.pc # "start") =>
          /\ ChatDone
          /\ ~search.called
          /\ ~chat.generated
          /\ chat.result = Response(400, "Question cannot be empty")

\* A chat over a non-empty index whose search returned nothing has answered.
C22_Witness ==
    /\ ChatDone
    /\ index # {}
    /\ chat.searched
    /\ chat.sources = <<>>
    /\ chat.body.answer = NoInformation

\* C23: a chat whose search returned a source answers with a text: the
\* generated answer, or the description of the generator's error; it never
\* ends in an internal error.
C23_GeneratorFailureDegraded ==
    (ChatDone /\ chat.searched /\ chat.sources # <<>>) =>
        /\ chat.result.status = 200
        /\ chat.body.answer # ""

====
